---- MODULE Spec2Model ----
(***************************************************************************)
(* GifSauce: the GIF container parser (parse_gif), the LZW decoder         *)
(* (read_lzw_data), the LZW encoder wrapper (lzw_compress), the container  *)
(* serializer (reassemble_gif) and the embedding of the text read from     *)
(* stdin (main) of src/GifSauce.rs, as a state machine over a byte reader. *)
(*                                                                         *)
(* The reader is the pair (input, pos): input is the whole byte sequence   *)
(* behind the Read + Seek object and pos the number of bytes consumed, so  *)
(* the next byte read is input[pos + 1].                                   *)
(* An Option<T> is a sequence of length 0 (None) or 1 (Some).              *)
(* A String is held as its UTF-8 bytes.                                    *)
(***************************************************************************)
EXTENDS Integers, Sequences, FiniteSets, TLC

VARIABLES
    input,              \* bytes behind the reader
    pos,                \* reader position (bytes consumed)
    pc,                 \* control location of the program
    err,                \* kind of the error an Err(..) carries, "" when none
    gif,                \* the fields parse_gif collects for the GIF struct
    plain_text_found,   \* parse_gif's flag
    image,              \* fields of the image descriptor read before its LZW data
    minimum_code_size,  \* read_lzw_data: argument
    dictionary,         \* read_lzw_data: Vec<Vec<u8>>
    next_code,          \* read_lzw_data
    bit_buffer,         \* read_lzw_data: u32
    bit_count,          \* read_lzw_data
    current_bit_size,   \* read_lzw_data
    previous_code,      \* read_lzw_data: Option<u16>
    data,               \* read_lzw_data: output Vec<u8>
    block_data,         \* read_lzw_data: bytes of the current sub-block not yet looped over
    output,             \* what reassemble_gif wrote, as tagged segments
    stdin,              \* main: the String read from stdin (`input` in main), as bytes
    codes,              \* history: codes extracted by the current read_lzw_data call
    gce_read,           \* history: graphics control extensions read so far
    last_block,         \* history: <<kind, position>> of the last block parse_gif took up
    pixels,             \* history: the pixels handed to lzw_compress (codec runs)
    run,                \* history: "compress" or "raw" (codec runs), "container"
    pass,               \* history: 1 = first parse, 2 = parse of the program's own output
    prev_output         \* history: bytes written by pass 1

vars == <<input, pos, pc, err, gif, plain_text_found, image, minimum_code_size,
          dictionary, next_code, bit_buffer, bit_count, current_bit_size,
          previous_code, data, block_data, output, stdin, codes, gce_read,
          last_block, pixels, run, pass, prev_output>>

lzw_vars == <<minimum_code_size, dictionary, next_code, bit_buffer, bit_count,
              current_bit_size, previous_code, data, block_data, codes>>

----------------------------------------------------------------------------
(* Bounds of the model *)

\* most whole chunks of input_chunk bytes in the text given on stdin
MaxPayloadChunks == 2
\* longest pixel sequence handed to lzw_compress in a codec run
MaxPixels == 4
\* most codes packed into a raw LZW payload fed to read_lzw_data in a codec run
MaxRawCodes == 3
\* most blocks of the block library in one generated container stream
MaxBlocks == 2

----------------------------------------------------------------------------
(* Integer helpers *)

Pow2(n) == 2 ^ n

U8(x) == x % 256

U16(x) == x % 65536

RECURSIVE BitOr(_, _)
\* a | b on naturals
BitOr(a, b) ==
    IF a = 0 THEN b
    ELSE IF b = 0 THEN a
    ELSE (IF (a % 2 = 1) \/ (b % 2 = 1) THEN 1 ELSE 0) + 2 * BitOr(a \div 2, b \div 2)

RECURSIVE BitAnd(_, _)
\* a & b on naturals
BitAnd(a, b) ==
    IF a = 0 \/ b = 0 THEN 0
    ELSE (IF (a % 2 = 1) /\ (b % 2 = 1) THEN 1 ELSE 0) + 2 * BitAnd(a \div 2, b \div 2)

RECURSIVE Flatten(_)
\* concatenation of a sequence of sequences
Flatten(ss) ==
    IF ss = <<>> THEN <<>>
    ELSE IF Len(ss) = 1 THEN ss[1]
    ELSE Flatten(SubSeq(ss, 1, Len(ss) \div 2))
         \o Flatten(SubSeq(ss, (Len(ss) \div 2) + 1, Len(ss)))

Last(s) == s[Len(s)]

\* slice.chunks(n): consecutive chunks of n elements, the last one shorter
RECURSIVE chunks(_, _)
chunks(s, n) ==
    IF s = <<>> THEN <<>>
    ELSE IF Len(s) <= n THEN <<s>>
    ELSE <<SubSeq(s, 1, n)>> \o chunks(SubSeq(s, n + 1, Len(s)), n)

----------------------------------------------------------------------------
(* read_lzw_data: the LZW decoder *)

clear_code(k) == U16(Pow2(k))

\* mutant: the end code taken one too high
end_of_information_code_OffByOne(k) == clear_code(k) + 2

end_of_information_code(k) == clear_code(k) + 1

\* (0..clear_code).map(|i| vec![i as u8]) followed by the two empty entries;
\* entry of code c is at index c + 1
InitialDictionary(k) ==
    [i \in 1..(clear_code(k) + 2) |->
        IF i <= clear_code(k) THEN <<U8(i - 1)>> ELSE <<>>]

\* (bit_buffer & ((1 << current_bit_size) - 1)) as u16
ExtractCode(buf, cbs) == U16(BitAnd(buf, Pow2(cbs) - 1))

\* the entry a data code resolves to; defined when the code is known or a
\* previous code is present
ResolveEntry(dict, nc, prev, code) ==
    IF code < nc THEN dict[code + 1]
    ELSE LET new_entry == dict[prev[1] + 1]
         IN  Append(new_entry, new_entry[1])

\* mutant: the width grows one code late
GrowBitSize_Late(nc, cbs) ==
    IF nc = Pow2(cbs) + 1 /\ cbs < 12 THEN cbs + 1 ELSE cbs

\* "Increase the bit size if necessary"
GrowBitSize(nc, cbs) ==
    IF nc = Pow2(cbs) /\ cbs < 12 THEN cbs + 1 ELSE cbs

\* where the loops of read_lzw_data stand once a code or a byte is dealt with:
\* the while loop goes on if a whole code is buffered, else the for loop takes
\* the next byte, else the outer loop reads the next sub-block
LzwLoop(bc, cbs, blk) ==
    IF bc >= cbs THEN "lzw_code"
    ELSE IF blk # <<>> THEN "lzw_byte"
    ELSE "lzw_block"

\* the code the while loop extracts next
code == ExtractCode(bit_buffer, current_bit_size)

\* the state of the locals at the entry of read_lzw_data's loop
LzwStart(k) ==
    /\ minimum_code_size' = k
    /\ dictionary' = InitialDictionary(k)
    /\ next_code' = clear_code(k) + 2
    /\ bit_buffer' = 0
    /\ bit_count' = 0
    /\ current_bit_size' = k + 1
    /\ previous_code' = <<>>
    /\ data' = <<>>
    /\ block_data' = <<>>
    /\ codes' = <<>>

rest_vars == <<gif, plain_text_found, image, output, stdin, gce_read, last_block,
               pixels, run, pass, prev_output>>

\* the kind of an error of read_lzw_data as its caller sees it:
\* read_image_descriptor wraps it, map_err(|e| io::Error::new(ErrorKind::Other, e))
LzwErr(kind) == IF run = "container" THEN "Other" ELSE kind

\* read_exact(&mut block_size) fails with UnexpectedEof: Ok(data)
LzwEndOfInput ==
    /\ pc = "lzw_block"
    /\ pos + 1 > Len(input)
    /\ pc' = "lzw_returned"
    /\ UNCHANGED <<input, pos, err, lzw_vars, rest_vars>>

\* read_exact(&mut block_data)? fails: the error is propagated
LzwTruncatedBlock ==
    /\ pc = "lzw_block"
    /\ pos + 1 <= Len(input)
    /\ pos + 1 + input[pos + 1] > Len(input)
    /\ pc' = "failed"
    /\ err' = LzwErr("UnexpectedEof")
    /\ UNCHANGED <<input, pos, lzw_vars, rest_vars>>

\* a sub-block is read whole (a zero-length one too)
LzwReadBlock ==
    /\ pc = "lzw_block"
    /\ pos + 1 <= Len(input)
    /\ pos + 1 + input[pos + 1] <= Len(input)
    /\ block_data' = SubSeq(input, pos + 2, pos + 1 + input[pos + 1])
    /\ pos' = pos + 1 + input[pos + 1]
    /\ pc' = IF block_data' = <<>> THEN "lzw_block" ELSE "lzw_byte"
    /\ UNCHANGED <<input, err, minimum_code_size, dictionary, next_code, bit_buffer,
                   bit_count, current_bit_size, previous_code, data, codes, rest_vars>>

\* for &byte in &block_data: the byte enters the bit buffer.  bit_count is below
\* current_bit_size <= 12 here, so the shifted byte is below 2^20 and the u32
\* never wraps
LzwNextByte ==
    /\ pc = "lzw_byte"
    /\ bit_buffer' = BitOr(bit_buffer, Head(block_data) * Pow2(bit_count))
    /\ bit_count' = bit_count + 8
    /\ block_data' = Tail(block_data)
    /\ pc' = LzwLoop(bit_count', current_bit_size, block_data')
    /\ UNCHANGED <<input, pos, err, minimum_code_size, dictionary, next_code,
                   current_bit_size, previous_code, data, codes, rest_vars>>

\* the code is taken out of the bit buffer
TakeCode ==
    /\ bit_buffer' = bit_buffer \div Pow2(current_bit_size)
    /\ bit_count' = bit_count - current_bit_size
    /\ codes' = Append(codes, code)

\* code == end_of_information_code: return Ok(data)
LzwEndCode ==
    /\ pc = "lzw_code"
    /\ code = end_of_information_code(minimum_code_size)
    /\ TakeCode
    /\ pc' = "lzw_returned"
    /\ UNCHANGED <<input, pos, err, minimum_code_size, dictionary, next_code,
                   current_bit_size, previous_code, data, block_data, rest_vars>>

\* mutant: the clear code leaves the dictionary as it is
LzwClearCode_KeepsDictionary ==
    /\ pc = "lzw_code"
    /\ code # end_of_information_code(minimum_code_size)
    /\ code = clear_code(minimum_code_size)
    /\ TakeCode
    /\ next_code' = clear_code(minimum_code_size) + 2
    /\ current_bit_size' = minimum_code_size + 1
    /\ previous_code' = <<>>
    /\ pc' = LzwLoop(bit_count', current_bit_size', block_data)
    /\ UNCHANGED <<input, pos, err, minimum_code_size, dictionary, data, block_data,
                   rest_vars>>

\* code == clear_code: dictionary and bit size are reset
LzwClearCode ==
    /\ pc = "lzw_code"
    /\ code # end_of_information_code(minimum_code_size)
    /\ code = clear_code(minimum_code_size)
    /\ TakeCode
    /\ dictionary' = InitialDictionary(minimum_code_size)
    /\ next_code' = clear_code(minimum_code_size) + 2
    /\ current_bit_size' = minimum_code_size + 1
    /\ previous_code' = <<>>
    /\ pc' = LzwLoop(bit_count', current_bit_size', block_data)
    /\ UNCHANGED <<input, pos, err, minimum_code_size, data, block_data, rest_vars>>

IsDataCode ==
    /\ code # end_of_information_code(minimum_code_size)
    /\ code # clear_code(minimum_code_size)

\* a code that is not known, with no previous code: Err("Invalid LZW code.")
LzwInvalidCode ==
    /\ pc = "lzw_code"
    /\ IsDataCode
    /\ code >= next_code
    /\ previous_code = <<>>
    /\ TakeCode
    /\ pc' = "failed"
    /\ err' = LzwErr("InvalidData")
    /\ UNCHANGED <<input, pos, minimum_code_size, dictionary, next_code,
                   current_bit_size, previous_code, data, block_data, rest_vars>>

\* dictionary[prev_code as usize] with prev_code beyond the dictionary: the
\* index panics
LzwIndexPanic ==
    /\ pc = "lzw_code"
    /\ IsDataCode
    /\ previous_code # <<>>
    /\ previous_code[1] >= Len(dictionary)
    /\ TakeCode
    /\ pc' = "failed"
    /\ err' = "panic"
    /\ UNCHANGED <<input, pos, minimum_code_size, dictionary, next_code,
                   current_bit_size, previous_code, data, block_data, rest_vars>>

\* a data code: its entry is appended to data, the dictionary grows
LzwDataCode ==
    /\ pc = "lzw_code"
    /\ IsDataCode
    /\ code < next_code \/ previous_code # <<>>
    /\ previous_code # <<>> => previous_code[1] < Len(dictionary)
    /\ TakeCode
    /\ LET entry == ResolveEntry(dictionary, next_code, previous_code, code)
           grow == previous_code # <<>> /\ next_code < Pow2(12)
       IN  /\ data' = data \o entry
           /\ dictionary' =
                IF grow
                THEN Append(dictionary, Append(dictionary[previous_code[1] + 1], entry[1]))
                ELSE dictionary
           /\ next_code' = IF grow THEN next_code + 1 ELSE next_code
           /\ current_bit_size' =
                IF previous_code # <<>>
                THEN GrowBitSize(next_code', current_bit_size)
                ELSE current_bit_size
    /\ previous_code' = <<code>>
    /\ pc' = LzwLoop(bit_count', current_bit_size', block_data)
    /\ UNCHANGED <<input, pos, err, minimum_code_size, block_data, rest_vars>>

LzwNext ==
    \/ LzwEndOfInput
    \/ LzwTruncatedBlock
    \/ LzwReadBlock
    \/ LzwNextByte
    \/ LzwEndCode
    \/ LzwClearCode
    \/ LzwInvalidCode
    \/ LzwIndexPanic
    \/ LzwDataCode

----------------------------------------------------------------------------
(* lzw_compress: the encoder of the lzw crate behind the wrapper.  The     *)
(* crate is not part of the sources; Encoder and LsbWriter follow the      *)
(* design of the encoder: a clear code first, greedy longest match, the    *)
(* end code last, codes packed least significant bit first.                *)

\* the control codes and the initial dictionary of the encoder: the single
\* bytes below 2^k, then the entries of the clear code and of the end code
EncoderClearCode(k) == Pow2(k)

EncoderEndCode(k) == Pow2(k) + 1

EncoderDictionary(k) ==
    [i \in 1..(Pow2(k) + 2) |-> IF i <= Pow2(k) THEN <<i - 1>> ELSE <<>>]

\* the code of a string the encoder's dictionary holds
EncoderCode(dict, w) == (CHOOSE i \in 1..Len(dict) : dict[i] = w) - 1

EncoderHas(dict, w) == \E i \in 1..Len(dict) : dict[i] = w

\* Encoder::encode_bytes, then the pending code and the end code on drop:
\* the <<code, width>> pairs after the initial clear code
RECURSIVE Encoder(_, _, _, _, _)
Encoder(bytes, w, dict, code_size, k) ==
    IF bytes = <<>>
    THEN (IF w = <<>> THEN <<>> ELSE <<<<EncoderCode(dict, w), code_size>>>>)
         \o <<<<EncoderEndCode(k), code_size>>>>
    ELSE LET c == Head(bytes)
             wc == Append(w, c)
         IN  IF EncoderHas(dict, wc)
             THEN Encoder(Tail(bytes), wc, dict, code_size, k)
             ELSE LET grown == Append(dict, wc)
                      size == IF Len(grown) > Pow2(code_size) /\ code_size < 12
                              THEN code_size + 1 ELSE code_size
                  IN  <<<<EncoderCode(dict, w), code_size>>>>
                      \o Encoder(Tail(bytes), <<c>>, grown, size, k)

\* LsbWriter: the codes packed least significant bit first, the last byte
\* padded with zero bits by flush
RECURSIVE LsbWriter(_, _, _)
LsbWriter(cws, acc, nbits) ==
    IF nbits >= 8
    THEN <<acc % 256>> \o LsbWriter(cws, acc \div 256, nbits - 8)
    ELSE IF cws = <<>>
    THEN (IF nbits > 0 THEN <<acc>> ELSE <<>>)
    ELSE LsbWriter(Tail(cws), acc + Head(cws)[1] * Pow2(nbits), nbits + Head(cws)[2])

lzw_compress(bytes, min_code_size) ==
    LsbWriter(<<<<EncoderClearCode(min_code_size), min_code_size + 1>>>>
                \o Encoder(bytes, <<>>, EncoderDictionary(min_code_size),
                           min_code_size + 1, min_code_size),
              0, 0)

\* reassemble_gif, "Compress and write the image data": the compressed data
\* in chunks of 255 bytes, each after its length, then the block terminator
WriteImageData(image_data, min_code_size) ==
    Flatten([i \in 1..Len(chunks(lzw_compress(image_data, min_code_size), 255)) |->
                LET chunk == chunks(lzw_compress(image_data, min_code_size), 255)[i]
                IN  <<U8(Len(chunk))>> \o chunk])
    \o <<0>>

----------------------------------------------------------------------------
(* The readers of parse_gif.  A reader takes the bytes s and the position  *)
(* p and gives [ok |-> TRUE, pos, val] or [ok |-> FALSE, err].             *)

Eof == [ok |-> FALSE, err |-> "UnexpectedEof"]

Invalid == [ok |-> FALSE, err |-> "InvalidData"]

Ok(p, v) == [ok |-> TRUE, pos |-> p, val |-> v]

\* u16::from_le_bytes of the two bytes after position p
from_le_bytes(s, p) == s[p + 1] + 256 * s[p + 2]

to_le_bytes(x) == <<x % 256, x \div 256>>

\* String::from_utf8_lossy(..).into_owned(), as the UTF-8 bytes of the String:
\* valid sequences are kept, every maximal invalid part becomes U+FFFD
RECURSIVE from_utf8_lossy(_)
from_utf8_lossy(v) ==
    IF \A i \in 1..Len(v) : v[i] < 128 THEN v
    ELSE LET \* the first byte that is not ASCII
             f == CHOOSE i \in 1..Len(v) :
                    v[i] >= 128 /\ \A j \in 1..(i - 1) : v[j] < 128
             b == v[f]
             At(i) == IF i <= Len(v) THEN v[i] ELSE 0
             Cont(i) == At(i) \div 64 = 2
             width == IF b >= 194 /\ b <= 223 THEN 2
                      ELSE IF b >= 224 /\ b <= 239 THEN 3
                      ELSE IF b >= 240 /\ b <= 244 THEN 4
                      ELSE 0
             second3 == \/ b = 224 /\ At(f + 1) >= 160 /\ At(f + 1) <= 191
                        \/ b >= 225 /\ b <= 236 /\ Cont(f + 1)
                        \/ b = 237 /\ At(f + 1) >= 128 /\ At(f + 1) <= 159
                        \/ b >= 238 /\ b <= 239 /\ Cont(f + 1)
             second4 == \/ b = 240 /\ At(f + 1) >= 144 /\ At(f + 1) <= 191
                        \/ b >= 241 /\ b <= 243 /\ Cont(f + 1)
                        \/ b = 244 /\ At(f + 1) >= 128 /\ At(f + 1) <= 143
             \* <<is valid, bytes taken>>
             r == IF width = 2 THEN (IF Cont(f + 1) THEN <<TRUE, 2>> ELSE <<FALSE, 1>>)
                  ELSE IF width = 3
                  THEN (IF ~second3 THEN <<FALSE, 1>>
                        ELSE IF ~Cont(f + 2) THEN <<FALSE, 2>>
                        ELSE <<TRUE, 3>>)
                  ELSE IF width = 4
                  THEN (IF ~second4 THEN <<FALSE, 1>>
                        ELSE IF ~Cont(f + 2) THEN <<FALSE, 2>>
                        ELSE IF ~Cont(f + 3) THEN <<FALSE, 3>>
                        ELSE <<TRUE, 4>>)
                  ELSE <<FALSE, 1>>
         IN  SubSeq(v, 1, f - 1)
             \o (IF r[1] THEN SubSeq(v, f, f + r[2] - 1) ELSE <<239, 191, 189>>)
             \o from_utf8_lossy(SubSeq(v, f + r[2], Len(v)))

\* read_gif_header: six bytes, none of them examined
read_gif_header(s, p) ==
    IF p + 6 > Len(s) THEN Eof
    ELSE Ok(p + 6, [signature |-> SubSeq(s, p + 1, p + 3),
                    version |-> SubSeq(s, p + 4, p + 6)])

read_logical_screen_descriptor(s, p) ==
    IF p + 7 > Len(s) THEN Eof
    ELSE Ok(p + 7, [width |-> from_le_bytes(s, p),
                    height |-> from_le_bytes(s, p + 2),
                    packed_field |-> s[p + 5],
                    background_color_index |-> s[p + 6],
                    pixel_aspect_ratio |-> s[p + 7]])

\* read_color_table: size entries of three bytes
read_color_table(s, p, size) ==
    IF p + 3 * size > Len(s) THEN Eof
    ELSE Ok(p + 3 * size, [i \in 1..size |-> SubSeq(s, p + 3 * i - 2, p + 3 * i)])

\* parse_gif, "Check global color table size"
global_color_table_size(packed_field) ==
    IF BitAnd(packed_field, 7) > 0
    THEN Pow2(BitAnd(packed_field, 7) + 1)
    ELSE 0

\* read_image_descriptor, "Determine the local color table size (if present)"
local_color_table_size(packed_field) ==
    IF BitAnd(packed_field, 128) # 0
    THEN Pow2(BitAnd(packed_field, 7) + 1)
    ELSE 0

\* the loop shared by the sub-block readers: length byte, that many bytes,
\* until a zero length; val is the sequence of the sub-blocks read
RECURSIVE ReadSubBlocks(_, _)
ReadSubBlocks(s, p) ==
    IF p + 1 > Len(s) THEN Eof
    ELSE IF s[p + 1] = 0 THEN Ok(p + 1, <<>>)
    ELSE IF p + 1 + s[p + 1] > Len(s) THEN Eof
    ELSE LET more == ReadSubBlocks(s, p + 1 + s[p + 1])
         IN  IF more.ok
             THEN Ok(more.pos, <<SubSeq(s, p + 2, p + 1 + s[p + 1])>> \o more.val)
             ELSE more

\* mutant: a block size other than 4 is read on
read_graphics_control_extension_AnySize(s, p) ==
    IF p + 1 > Len(s) THEN Eof
    ELSE IF p + 6 > Len(s) THEN Eof
    ELSE Ok(p + 6, [packed_field |-> s[p + 2],
                    delay_time |-> from_le_bytes(s, p + 2),
                    transparent_color_index |-> s[p + 5]])

\* read_graphics_control_extension: p is just after the label
read_graphics_control_extension(s, p) ==
    IF p + 1 > Len(s) THEN Eof
    ELSE IF s[p + 1] # 4 THEN Invalid
    ELSE IF p + 6 > Len(s) THEN Eof
    ELSE Ok(p + 6, [packed_field |-> s[p + 2],
                    delay_time |-> from_le_bytes(s, p + 2),
                    transparent_color_index |-> s[p + 5]])

\* read_comment_extension: one String per sub-block
read_comment_extension(s, p) ==
    LET blocks == ReadSubBlocks(s, p)
    IN  IF blocks.ok
        THEN Ok(blocks.pos,
                [comments |-> [i \in 1..Len(blocks.val) |-> from_utf8_lossy(blocks.val[i])]])
        ELSE blocks

read_application_extension(s, p) ==
    IF p + 1 > Len(s) THEN Eof
    ELSE IF s[p + 1] # 11 THEN Invalid
    ELSE IF p + 12 > Len(s) THEN Eof
    ELSE LET blocks == ReadSubBlocks(s, p + 12)
         IN  IF blocks.ok
             THEN Ok(blocks.pos,
                     [identifier |-> from_utf8_lossy(SubSeq(s, p + 2, p + 9)),
                      authentication_code |-> from_utf8_lossy(SubSeq(s, p + 10, p + 12)),
                      data |-> Flatten(blocks.val)])
             ELSE blocks

read_plain_text_extension(s, p) ==
    IF p + 13 > Len(s) THEN Eof
    ELSE LET blocks == ReadSubBlocks(s, p + 13)
         IN  IF blocks.ok
             THEN Ok(blocks.pos,
                     [block_size |-> s[p + 1],
                      text_grid_left_position |-> from_le_bytes(s, p + 1),
                      text_grid_top_position |-> from_le_bytes(s, p + 3),
                      text_grid_width |-> from_le_bytes(s, p + 5),
                      text_grid_height |-> from_le_bytes(s, p + 7),
                      character_cell_width |-> s[p + 10],
                      character_cell_height |-> s[p + 11],
                      text_foreground_color_index |-> s[p + 12],
                      text_background_color_index |-> s[p + 13],
                      plain_text_data |-> Flatten(blocks.val)])
             ELSE blocks

\* mutant: the skip stops in front of the terminator
skip_unknown_extension_BeforeTerminator(s, p) ==
    LET blocks == ReadSubBlocks(s, p)
    IN  IF blocks.ok THEN Ok(blocks.pos - 1, <<>>) ELSE blocks

\* parse_gif, "Skip unknown extensions": the sub-blocks are read and dropped
skip_unknown_extension(s, p) ==
    LET blocks == ReadSubBlocks(s, p)
    IN  IF blocks.ok THEN Ok(blocks.pos, <<>>) ELSE blocks

\* read_image_descriptor up to the call of read_lzw_data: p is at the separator
\* (parse_gif has seeked back one byte)
read_image_descriptor(s, p) ==
    IF p + 1 > Len(s) THEN Eof
    ELSE IF s[p + 1] # 44 THEN Invalid
    ELSE IF p + 10 > Len(s) THEN Eof
    ELSE LET packed_field == s[p + 10]
             size == local_color_table_size(packed_field)
             table == IF size > 0 THEN read_color_table(s, p + 10, size)
                      ELSE Ok(p + 10, <<>>)
         IN  IF ~table.ok THEN table
             ELSE IF table.pos + 1 > Len(s) THEN Eof
             ELSE Ok(table.pos + 1,
                     [left |-> from_le_bytes(s, p + 1),
                      top |-> from_le_bytes(s, p + 3),
                      width |-> from_le_bytes(s, p + 5),
                      height |-> from_le_bytes(s, p + 7),
                      packed_field |-> packed_field,
                      local_color_table |-> IF size > 0 THEN <<table.val>> ELSE <<>>,
                      lzw_minimum_code_size |-> s[table.pos + 1]])

----------------------------------------------------------------------------
(* Codec runs: read_lzw_data on the serializer's image data and on raw     *)
(* sub-block streams                                                       *)

CodeSizes == 2..8

\* sequences over S of length at most n
SeqsUpTo(S, n) == UNION {[1..m -> S] : m \in 0..n}

\* pixel values below 2^k: the smallest two and the largest
PixelValues(k) == {0, 1, Pow2(k) - 1}

\* codes worth feeding raw: a literal, the control codes, the next code to be
\* assigned and the one after it
RawCodes(k) == {0, Pow2(k), Pow2(k) + 1, Pow2(k) + 2, Pow2(k) + 3}

\* codes at the initial width, packed least significant bit first
PackAtInitialWidth(cs, k) ==
    LsbWriter([i \in 1..Len(cs) |-> <<cs[i], k + 1>>], 0, 0)

\* a raw payload as one sub-block: whole with its terminator, without the
\* terminator, or with its last payload byte missing; and as one sub-block
\* per byte
RawFramings(payload) ==
    {<<Len(payload)>> \o payload \o <<0>>,
     <<Len(payload)>> \o payload,
     <<Len(payload)>> \o SubSeq(payload, 1, Len(payload) - 1),
     Flatten([i \in 1..Len(payload) |-> <<1, payload[i]>>]) \o <<0>>}

NoGif ==
    [header |-> <<>>, logical_screen_descriptor |-> <<>>,
     global_color_table |-> <<>>, graphics_control_extension |-> <<>>,
     comment_extensions |-> <<>>, application_extensions |-> <<>>,
     plain_text_extensions |-> <<>>, image_descriptors |-> <<>>]

InitCommon ==
    /\ pos = 0
    /\ err = ""
    /\ gif = NoGif
    /\ plain_text_found = FALSE
    /\ image = <<>>
    /\ dictionary = <<>>
    /\ next_code = 0
    /\ bit_buffer = 0
    /\ bit_count = 0
    /\ current_bit_size = 0
    /\ previous_code = <<>>
    /\ data = <<>>
    /\ block_data = <<>>
    /\ output = <<>>
    /\ stdin = <<>>
    /\ codes = <<>>
    /\ gce_read = <<>>
    /\ last_block = <<>>
    /\ pass = 1
    /\ prev_output = <<>>

InitLZW ==
    /\ InitCommon
    /\ \E k \in CodeSizes :
         /\ minimum_code_size = k
         /\ \/ /\ pc = "compress"
               /\ run = "compress"
               /\ pixels \in SeqsUpTo(PixelValues(k), MaxPixels)
               /\ input = <<>>
            \/ /\ pc = "raw"
               /\ run = "raw"
               /\ pixels = <<>>
               /\ \E cs \in SeqsUpTo(RawCodes(k), MaxRawCodes) :
                    input \in RawFramings(PackAtInitialWidth(cs, k))

\* the image data of the pixels is written, then read back by read_lzw_data
CodecCompress ==
    /\ pc = "compress"
    /\ input' = WriteImageData(pixels, minimum_code_size)
    /\ pos' = 0
    /\ LzwStart(minimum_code_size)
    /\ pc' = "lzw_block"
    /\ UNCHANGED <<err, rest_vars>>

\* read_lzw_data is called on a raw sub-block stream
CodecRaw ==
    /\ pc = "raw"
    /\ LzwStart(minimum_code_size)
    /\ pc' = "lzw_block"
    /\ UNCHANGED <<input, pos, err, rest_vars>>

NextLZW ==
    \/ CodecCompress
    \/ CodecRaw
    \/ LzwNext

SpecLZW == InitLZW /\ [][NextLZW]_vars

----------------------------------------------------------------------------
(* A codec run long enough to fill the dictionary: literal codes 0 until   *)
(* next_code is 4096 and the width 12, then a clear code, a literal and    *)
(* the end code                                                            *)

\* codes read at the full dictionary before the clear code
CodesAtFullDictionary == 2

\* bits of the codes read at the widths from..12 while the dictionary fills:
\* 2^(w-1) codes take next_code from 2^(w-1) to 2^w
RECURSIVE BitsWhileFilling(_)
BitsWhileFilling(from) ==
    IF from > 12 THEN 0 ELSE from * Pow2(from - 1) + BitsWhileFilling(from + 1)

\* bits of the literal codes: the first code and those taking next_code from
\* 2^k + 2 to 2^(k+1) at width k + 1, the wider ones, then those at 4096
FillingBits(k) ==
    (Pow2(k) - 1) * (k + 1) + BitsWhileFilling(k + 2) + 12 * CodesAtFullDictionary

\* bit positions set in the stream: the literals are code 0, the clear code
\* 2^k is read at width 12, the literal 0 and the end code 2^k + 1 at k + 1
FillingOnes(k) ==
    <<FillingBits(k) + k,
      FillingBits(k) + 12 + (k + 1),
      FillingBits(k) + 12 + (k + 1) + k>>

FillingPayload(k) ==
    LET ones == FillingOnes(k)
        bit(b, i) == IF b \div 8 = i - 1 THEN Pow2(b % 8) ELSE 0
    IN  [i \in 1..((ones[3] + 1 + 7) \div 8) |->
            bit(ones[1], i) + bit(ones[2], i) + bit(ones[3], i)]

\* the payload in sub-blocks of 255 bytes with the terminator
FillingStream(k) ==
    LET blocks == chunks(FillingPayload(k), 255)
    IN  Flatten([i \in 1..Len(blocks) |-> <<Len(blocks[i])>> \o blocks[i]]) \o <<0>>

\* a short stream over the first width boundary: for k = 2 the literals 0, 0, 0
\* at width 3 take next_code to 8, the clear code is read at width 4, the
\* literal 0 and the end code at width 3 again
GrowthStream(k) ==
    LET codes_read ==
            [i \in 1..(Pow2(k) - 1) |-> <<0, k + 1>>]
            \o <<<<Pow2(k), k + 2>>, <<0, k + 1>>, <<Pow2(k) + 1, k + 1>>>>
        payload == LsbWriter(codes_read, 0, 0)
    IN  <<Len(payload)>> \o payload \o <<0>>

InitLZWFilling ==
    \/ InitLZW
    \/ /\ InitCommon
       /\ minimum_code_size = 2
       /\ pc = "raw"
       /\ run = "filling"
       /\ pixels = <<>>
       /\ input \in {FillingStream(2), GrowthStream(2)}

SpecLZWFilling == InitLZWFilling /\ [][NextLZW]_vars


----------------------------------------------------------------------------
(* reassemble_gif: what is written, as a sequence of tagged segments.  A   *)
(* segment that frames a variable-length payload carries the payload.      *)

Seg(tag, bytes, payload) == [tag |-> tag, bytes |-> bytes, payload |-> payload]

Fixed(tag, bytes) == Seg(tag, bytes, <<>>)

\* the bytes of a sequence of segments
Bytes(segs) == Flatten([i \in 1..Len(segs) |-> segs[i].bytes])

\* chunk.len() as u8 and the chunk, for every chunk of 255 bytes
WriteChunks(bytes) ==
    Flatten([i \in 1..Len(chunks(bytes, 255)) |->
                <<U8(Len(chunks(bytes, 255)[i]))>> \o chunks(bytes, 255)[i]])

\* "5. Write comment extensions": one length byte for the joined comments
WriteComment(comment) ==
    LET comment_bytes == Flatten(comment.comments)
    IN  <<Fixed("comment", <<33, 254>>),
          Seg("comment_data",
              <<U8(Len(comment_bytes))>> \o comment_bytes \o <<0>>,
              comment_bytes)>>

\* "6. Write application extensions"
WriteApplication(application) ==
    <<Fixed("application",
            <<33, 255, 11>> \o application.identifier \o application.authentication_code),
      Seg("application_data", WriteChunks(application.data) \o <<0>>, application.data)>>

\* "7. Write plain text extensions": the fixed fields of the first one, then
\* one length byte and the data of each, the terminator after the last
WritePlainTexts(plain_text_extensions) ==
    IF plain_text_extensions = <<>> THEN <<>>
    ELSE LET plain_text == plain_text_extensions[1]
         IN  <<Fixed("plain_text",
                     <<33, 1, plain_text.block_size>>
                     \o to_le_bytes(plain_text.text_grid_left_position)
                     \o to_le_bytes(plain_text.text_grid_top_position)
                     \o to_le_bytes(plain_text.text_grid_width)
                     \o to_le_bytes(plain_text.text_grid_height)
                     \o <<plain_text.character_cell_width,
                          plain_text.character_cell_height,
                          plain_text.text_foreground_color_index,
                          plain_text.text_background_color_index>>),
               Seg("plain_text_data",
                   Flatten([i \in 1..Len(plain_text_extensions) |->
                              <<U8(Len(plain_text_extensions[i].plain_text_data))>>
                              \o plain_text_extensions[i].plain_text_data])
                   \o <<0>>,
                   Flatten([i \in 1..Len(plain_text_extensions) |->
                              plain_text_extensions[i].plain_text_data]))>>

\* "8. Write image descriptors"
WriteImage(image_descriptor) ==
    <<Fixed("image",
            <<44>>
            \o to_le_bytes(image_descriptor.left)
            \o to_le_bytes(image_descriptor.top)
            \o to_le_bytes(image_descriptor.width)
            \o to_le_bytes(image_descriptor.height)
            \o <<image_descriptor.packed_field>>
            \o (IF image_descriptor.local_color_table = <<>> THEN <<>>
                ELSE Flatten(image_descriptor.local_color_table[1]))
            \o <<image_descriptor.lzw_minimum_code_size>>),
      Seg("image_data",
          WriteImageData(image_descriptor.image_data,
                         image_descriptor.lzw_minimum_code_size),
          lzw_compress(image_descriptor.image_data,
                       image_descriptor.lzw_minimum_code_size))>>

reassemble_gif(g) ==
    <<Fixed("header", g.header.signature \o g.header.version),
      Fixed("logical_screen_descriptor",
            to_le_bytes(g.logical_screen_descriptor.width)
            \o to_le_bytes(g.logical_screen_descriptor.height)
            \o <<g.logical_screen_descriptor.packed_field,
                 g.logical_screen_descriptor.background_color_index,
                 g.logical_screen_descriptor.pixel_aspect_ratio>>)>>
    \o (IF g.global_color_table = <<>> THEN <<>>
        ELSE <<Fixed("global_color_table", Flatten(g.global_color_table[1]))>>)
    \o (IF g.graphics_control_extension = <<>> THEN <<>>
        ELSE LET graphics_control_extension == g.graphics_control_extension[1]
             IN  <<Fixed("graphics_control_extension",
                         <<33, 249, 4, graphics_control_extension.packed_field>>
                         \o to_le_bytes(graphics_control_extension.delay_time)
                         \o <<graphics_control_extension.transparent_color_index, 0>>)>>)
    \o Flatten([i \in 1..Len(g.comment_extensions) |->
                  WriteComment(g.comment_extensions[i])])
    \o Flatten([i \in 1..Len(g.application_extensions) |->
                  WriteApplication(g.application_extensions[i])])
    \o WritePlainTexts(g.plain_text_extensions)
    \o Flatten([i \in 1..Len(g.image_descriptors) |->
                  WriteImage(g.image_descriptors[i])])
    \o <<Fixed("trailer", <<59>>)>>

----------------------------------------------------------------------------
(* parse_gif as steps over the reader, then reassemble_gif *)

Fail(kind) ==
    /\ pc' = "failed"
    /\ err' = kind

\* what parse_gif neither reads nor writes
hist_vars == <<stdin, pixels, run, pass, prev_output>>

\* let header = read_gif_header(reader)?
ParseHeader ==
    /\ pc = "header"
    /\ LET r == read_gif_header(input, pos)
       IN  IF r.ok
           THEN /\ gif' = [gif EXCEPT !.header = r.val]
                /\ pos' = r.pos
                /\ pc' = "screen"
                /\ err' = err
           ELSE Fail(r.err) /\ UNCHANGED <<gif, pos>>
    /\ UNCHANGED <<input, plain_text_found, image, lzw_vars, output, gce_read, hist_vars>>
    /\ UNCHANGED last_block

\* the logical screen descriptor and the global color table
ParseScreen ==
    /\ pc = "screen"
    /\ LET r == read_logical_screen_descriptor(input, pos)
           size == global_color_table_size(r.val.packed_field)
           table == read_color_table(input, r.pos, size)
       IN  IF ~r.ok THEN Fail(r.err) /\ UNCHANGED <<gif, pos>>
           ELSE IF size = 0
           THEN /\ gif' = [gif EXCEPT !.logical_screen_descriptor = r.val]
                /\ pos' = r.pos
                /\ pc' = "block"
                /\ err' = err
           ELSE IF ~table.ok THEN Fail(table.err) /\ UNCHANGED <<gif, pos>>
           ELSE /\ gif' = [gif EXCEPT !.logical_screen_descriptor = r.val,
                                      !.global_color_table = <<table.val>>]
                /\ pos' = table.pos
                /\ pc' = "block"
                /\ err' = err
    /\ UNCHANGED <<input, plain_text_found, image, lzw_vars, output, gce_read, hist_vars>>
    /\ UNCHANGED last_block

\* the byte read as block indicator and the one after it
block_indicator == input[pos + 1]

extension_type == input[pos + 2]

AtBlock(indicator) ==
    /\ pc = "block"
    /\ pos + 1 <= Len(input)
    /\ block_indicator = indicator

AtExtension(labels) ==
    /\ AtBlock(33)
    /\ pos + 2 <= Len(input)
    /\ extension_type \in labels

\* after the loop: exit(0) if a plain text extension was found, else Ok(GIF)
Finish ==
    pc' = IF plain_text_found THEN "exited" ELSE "returned"

\* read_exact(&mut block_indicator) fails with UnexpectedEof: break
EndOfStream ==
    /\ pc = "block"
    /\ pos + 1 > Len(input)
    /\ Finish
    /\ UNCHANGED <<input, pos, err, gif, plain_text_found, image, lzw_vars, output,
                   gce_read, hist_vars>>
    /\ UNCHANGED last_block

\* 0x3B: break
Trailer ==
    /\ AtBlock(59)
    /\ pos' = pos + 1
    /\ Finish
    /\ UNCHANGED <<input, err, gif, plain_text_found, image, lzw_vars, output,
                   gce_read, hist_vars>>
    /\ last_block' = <<"trailer", pos>>

\* any other block indicator: Err("Invalid GIF format.")
InvalidBlock ==
    /\ pc = "block"
    /\ pos + 1 <= Len(input)
    /\ block_indicator \notin {33, 44, 59}
    /\ Fail("InvalidData")
    /\ UNCHANGED <<input, pos, gif, plain_text_found, image, lzw_vars, output,
                   gce_read, hist_vars>>
    /\ last_block' = <<"invalid", pos>>

\* 0x21 with no byte after it: read_exact(&mut extension_type)? fails
ExtensionTypeMissing ==
    /\ AtBlock(33)
    /\ pos + 2 > Len(input)
    /\ Fail("UnexpectedEof")
    /\ UNCHANGED <<input, pos, gif, plain_text_found, image, lzw_vars, output,
                   gce_read, hist_vars>>
    /\ last_block' = <<"extension", pos>>

\* 0xF9: graphics_control_extension = Some(read_graphics_control_extension(reader)?)
GraphicsControl ==
    /\ AtExtension({249})
    /\ LET r == read_graphics_control_extension(input, pos + 2)
       IN  IF r.ok
           THEN /\ gif' = [gif EXCEPT !.graphics_control_extension = <<r.val>>]
                /\ gce_read' = Append(gce_read, r.val)
                /\ pos' = r.pos
                /\ UNCHANGED <<pc, err>>
           ELSE Fail(r.err) /\ UNCHANGED <<gif, gce_read, pos>>
    /\ UNCHANGED <<input, plain_text_found, image, lzw_vars, output, hist_vars>>
    /\ last_block' = <<"graphics_control", pos>>

\* 0xFE: comment_extensions.push(read_comment_extension(reader)?)
Comment ==
    /\ AtExtension({254})
    /\ LET r == read_comment_extension(input, pos + 2)
       IN  IF r.ok
           THEN /\ gif' = [gif EXCEPT !.comment_extensions = Append(@, r.val)]
                /\ pos' = r.pos
                /\ UNCHANGED <<pc, err>>
           ELSE Fail(r.err) /\ UNCHANGED <<gif, pos>>
    /\ UNCHANGED <<input, plain_text_found, image, lzw_vars, output, gce_read, hist_vars>>
    /\ last_block' = <<"comment", pos>>

\* 0xFF: application_extensions.push(read_application_extension(reader)?)
Application ==
    /\ AtExtension({255})
    /\ LET r == read_application_extension(input, pos + 2)
       IN  IF r.ok
           THEN /\ gif' = [gif EXCEPT !.application_extensions = Append(@, r.val)]
                /\ pos' = r.pos
                /\ UNCHANGED <<pc, err>>
           ELSE Fail(r.err) /\ UNCHANGED <<gif, pos>>
    /\ UNCHANGED <<input, plain_text_found, image, lzw_vars, output, gce_read, hist_vars>>
    /\ last_block' = <<"application", pos>>

\* 0x01: plain_text_extensions.push(..); plain_text_found = true
PlainText ==
    /\ AtExtension({1})
    /\ LET r == read_plain_text_extension(input, pos + 2)
       IN  IF r.ok
           THEN /\ gif' = [gif EXCEPT !.plain_text_extensions = Append(@, r.val)]
                /\ plain_text_found' = TRUE
                /\ pos' = r.pos
                /\ UNCHANGED <<pc, err>>
           ELSE Fail(r.err) /\ UNCHANGED <<gif, plain_text_found, pos>>
    /\ UNCHANGED <<input, image, lzw_vars, output, gce_read, hist_vars>>
    /\ last_block' = <<"plain_text", pos>>

\* any other label: the extension's sub-blocks are skipped
UnknownExtension ==
    /\ AtExtension((0..255) \ {249, 254, 255, 1})
    /\ LET r == skip_unknown_extension(input, pos + 2)
       IN  IF r.ok
           THEN /\ pos' = r.pos
                /\ UNCHANGED <<pc, err>>
           ELSE Fail(r.err) /\ UNCHANGED pos
    /\ UNCHANGED <<input, gif, plain_text_found, image, lzw_vars, output, gce_read,
                   hist_vars>>
    /\ last_block' = <<"unknown", pos>>

\* 0x2C: seek back one byte, read_image_descriptor up to its call of
\* read_lzw_data, whose locals are initialized
ImageDescriptor ==
    /\ AtBlock(44)
    /\ LET r == read_image_descriptor(input, pos)
       IN  IF r.ok
           THEN /\ image' = <<r.val>>
                /\ pos' = r.pos
                /\ pc' = "lzw_block"
                /\ err' = err
                /\ LzwStart(r.val.lzw_minimum_code_size)
           ELSE Fail(r.err) /\ UNCHANGED <<image, pos, lzw_vars>>
    /\ UNCHANGED <<input, gif, plain_text_found, output, gce_read, hist_vars>>
    /\ last_block' = <<"image", pos>>

\* read_lzw_data returned Ok(data): the descriptor is built and pushed, then
\* reader.seek(SeekFrom::Current(1))
ImagePushed ==
    /\ pc = "lzw_returned"
    /\ run = "container"
    /\ gif' = [gif EXCEPT !.image_descriptors =
                 Append(@, [left |-> image[1].left,
                            top |-> image[1].top,
                            width |-> image[1].width,
                            height |-> image[1].height,
                            packed_field |-> image[1].packed_field,
                            local_color_table |-> image[1].local_color_table,
                            lzw_minimum_code_size |-> image[1].lzw_minimum_code_size,
                            image_data |-> data])]
    /\ pos' = pos + 1
    /\ pc' = "block"
    /\ UNCHANGED <<input, err, plain_text_found, image, lzw_vars, output, gce_read,
                   hist_vars>>
    /\ UNCHANGED last_block

----------------------------------------------------------------------------
(* main: the text read from stdin replaces the plain text extensions *)

input_chunk == 254

\* a text of n bytes of printable ASCII, so that read_to_string succeeds and
\* every byte index is a character boundary
Text(n) == [i \in 1..n |-> 32 + (i % 95)]

\* the texts given on stdin: whole chunks, and one byte more
StdinTexts ==
    {Text(c * input_chunk + d) : c \in 0..MaxPayloadChunks, d \in {0, 1}}

\* io::stdin().read_to_string(&mut input)
ReadStdin ==
    /\ pc = "returned"
    /\ stdin' \in StdinTexts
    /\ pc' = "sizing"
    /\ UNCHANGED <<input, pos, err, gif, plain_text_found, image, lzw_vars, output,
                   gce_read, last_block, pixels, run, pass, prev_output>>

\* "Adjusting to content length": the test at the head of the loop
SizingLoop ==
    /\ pc = "sizing"
    /\ pc' = IF (Len(stdin) \div input_chunk) > Len(gif.image_descriptors)
             THEN "extending"
             ELSE "replace"
    /\ UNCHANGED <<input, pos, err, gif, plain_text_found, image, lzw_vars, output,
                   gce_read, last_block, hist_vars>>

\* gif.image_descriptors.extend(descriptors_clone), then the loop is re-entered
ExtendDescriptors ==
    /\ pc = "extending"
    /\ gif' = [gif EXCEPT !.image_descriptors = @ \o @]
    /\ pc' = "sizing"
    /\ UNCHANGED <<input, pos, err, plain_text_found, image, lzw_vars, output,
                   gce_read, last_block, hist_vars>>

\* the closure of the map: the plain text data of the record of an index
\* (from 0), and whether it is padding
IsPadding(index, text) ==
    /\ (index + 1) * input_chunk > Len(text)
    /\ index * input_chunk > Len(text)

NewPlainTextData(index, text) ==
    IF (index + 1) * input_chunk <= Len(text)
    THEN SubSeq(text, index * input_chunk + 1, (index + 1) * input_chunk)
    ELSE IF index * input_chunk > Len(text)
    THEN [i \in 1..254 |-> 0]
    ELSE SubSeq(text, index * input_chunk + 1, Len(text))

new_plain_text_extensions(image_descriptors, text) ==
    [i \in 1..Len(image_descriptors) |->
        [block_size |-> 12,
         text_grid_left_position |-> 0,
         text_grid_top_position |-> 0,
         text_grid_width |-> 0,
         text_grid_height |-> 0,
         character_cell_width |-> 0,
         character_cell_height |-> 0,
         text_foreground_color_index |-> 0,
         text_background_color_index |-> 0,
         plain_text_data |-> NewPlainTextData(i - 1, text)]]

count_remove(image_descriptors, text) ==
    Cardinality({i \in 1..Len(image_descriptors) : IsPadding(i - 1, text)})

\* Vec::pop, n times
Pop(v, n) == SubSeq(v, 1, Len(v) - n)

\* the new plain text extensions are built, the padding is removed from both
\* lists, and gif.plain_text_extensions is replaced
ReplacePlainText ==
    /\ pc = "replace"
    /\ LET n == count_remove(gif.image_descriptors, stdin)
       IN  gif' = [gif EXCEPT
                     !.image_descriptors = Pop(@, n),
                     !.plain_text_extensions =
                        Pop(new_plain_text_extensions(gif.image_descriptors, stdin), n)]
    /\ pc' = "embedded"
    /\ UNCHANGED <<input, pos, err, plain_text_found, image, lzw_vars, output,
                   gce_read, last_block, hist_vars>>

\* reassemble_gif(&mut reader, output_file, &gif)
Reassemble ==
    /\ pc = "embedded"
    /\ output' = reassemble_gif(gif)
    /\ pc' = "written"
    /\ UNCHANGED <<input, pos, err, gif, plain_text_found, image, lzw_vars, gce_read,
                   hist_vars>>
    /\ UNCHANGED last_block

\* the program is run again on the file it wrote
Reparse ==
    /\ pc = "written"
    /\ pass = 1
    /\ input' = Bytes(output)
    /\ prev_output' = Bytes(output)
    /\ pass' = 2
    /\ pos' = 0
    /\ pc' = "header"
    /\ gif' = NoGif
    /\ plain_text_found' = FALSE
    /\ gce_read' = <<>>
    /\ last_block' = <<>>
    /\ image' = <<>>
    /\ UNCHANGED <<err, lzw_vars, output, stdin, pixels, run>>

----------------------------------------------------------------------------
(* The container streams the program is run on *)

GIF89a == <<71, 73, 70, 56, 57, 97>>

GIF87a == <<71, 73, 70, 56, 55, 97>>

GIX89a == <<71, 73, 88, 56, 57, 97>>

\* a 1 x 1 logical screen descriptor with the given packed field
ScreenBytes(packed) == <<1, 0, 1, 0, packed, 0, 0>>

\* n RGB entries
ColorBytes(n) == Flatten([i \in 1..n |-> <<U8(i - 1), U8(n), 7>>])

\* the screen descriptor as a GIF writer lays it out: a table of 2^(e+1)
\* entries exactly when bit 7 of the packed field is set
ScreenWithTable(packed) ==
    ScreenBytes(packed)
    \o (IF packed >= 128 THEN ColorBytes(Pow2((packed % 8) + 1)) ELSE <<>>)

Repeat(b, n) == [i \in 1..n |-> b]

GraphicsControlBlock(packed, size) == <<33, 249, size, packed, 10, 0, 0, 0>>

\* an image block of 1 x 1 with the given packed field, minimum code size and
\* sub-block bytes
ImageBlock(packed, k, subblocks) ==
    <<44, 0, 0, 0, 0, 1, 0, 1, 0, packed>>
    \o (IF packed >= 128 THEN ColorBytes(Pow2((packed % 8) + 1)) ELSE <<>>)
    \o <<k>> \o subblocks

SubBlock(payload) == <<Len(payload)>> \o payload

ApplicationBlock(size, subblocks) ==
    <<33, 255, size, 78, 69, 84, 83, 67, 65, 80, 69, 50, 46, 48>> \o subblocks

BlockLibrary ==
    {GraphicsControlBlock(1, 4),
     GraphicsControlBlock(2, 4),
     <<33, 254, 0>>,                                   \* comment, no sub-block
     <<33, 254, 1, 65, 0>>,                            \* comment "A"
     <<33, 254, 1, 65, 1, 66, 0>>,                     \* comment "A", "B"
     <<33, 254, 1, 255, 0>>,                           \* comment, not UTF-8
     ApplicationBlock(11, <<3, 1, 0, 0, 0>>),
     ApplicationBlock(10, <<3, 1, 0, 0, 0>>),          \* wrong block size
     <<33, 1, 12, 0, 0, 0, 0, 1, 0, 1, 0, 8, 8, 1, 0, 2, 104, 105, 0>>,  \* plain text
     <<33, 171, 2, 9, 9, 0>>,                          \* unknown label
     <<33, 0, 1, 7, 1, 59, 0>>,                        \* unknown label, two sub-blocks
     ImageBlock(0, 2, <<2, 68, 1, 0>>),                \* clear, 0, end
     ImageBlock(128, 2, <<2, 68, 1, 0>>),              \* with a local color table
     ImageBlock(0, 2, <<2, 68, 1, 1, 0, 0>>),          \* end code in the first sub-block
     ImageBlock(0, 2, <<1, 4, 0>>),                    \* clear, 0 and no end code
     ImageBlock(0, 2, SubBlock(PackAtInitialWidth(<<4, 7>>, 2)) \o <<0>>),
     ImageBlock(0, 2, SubBlock(PackAtInitialWidth(<<0, 7, 0, 5>>, 2)) \o <<0>>),
     ImageBlock(0, 8, WriteImageData(<<0, 255, 0, 255>>, 8)),
     <<0>>}                                            \* no block indicator

\* blocks whose payload is longer than one sub-block holds
LongBlocks ==
    {<<33, 254, 255>> \o Repeat(65, 255) \o <<1, 66, 0>>,
     ApplicationBlock(11, <<255>> \o Repeat(1, 255) \o <<1, 2, 0>>)}

Stream(header, screen, blocks, tail) ==
    header \o screen \o Flatten(blocks) \o tail

Prefixes(s) == {SubSeq(s, 1, n) : n \in 0..(Len(s) - 1)}

\* well-formed screen, every sequence of library blocks, with and without trailer
LibraryStreams ==
    {Stream(GIF89a, ScreenBytes(0), blocks, tail) :
        blocks \in SeqsUpTo(BlockLibrary, MaxBlocks), tail \in {<<59>>, <<>>}}

LongStreams ==
    {Stream(GIF89a, ScreenBytes(0), <<b>>, <<59>>) : b \in LongBlocks}

\* every packed field of the screen descriptor's table bits
ScreenStreams ==
    {Stream(GIF89a, ScreenWithTable(flag + e), blocks, <<59>>) :
        flag \in {0, 128}, e \in 0..7,
        blocks \in {<<>>, <<ImageBlock(0, 2, <<2, 68, 1, 0>>)>>}}

\* other signatures
SignatureStreams ==
    {Stream(header, ScreenBytes(0), blocks, <<59>>) :
        header \in {GIX89a, GIF87a},
        blocks \in SeqsUpTo(BlockLibrary, 1)}

\* a graphics control extension with every block size, after nothing, after an
\* image and after a comment
BlockSizeStreams ==
    {Stream(GIF89a, ScreenBytes(0), before \o <<GraphicsControlBlock(1, size)>>, <<59>>) :
        size \in 0..255,
        before \in {<<>>, <<ImageBlock(0, 2, <<2, 68, 1, 0>>)>>, <<<<33, 254, 1, 65, 0>>>>}}

\* the input ends anywhere inside a stream of one block
TruncatedStreams ==
    UNION {Prefixes(Stream(GIF89a, ScreenBytes(0), <<b>>, <<59>>)) : b \in BlockLibrary}

Streams ==
    LibraryStreams \cup LongStreams \cup ScreenStreams \cup SignatureStreams
    \cup BlockSizeStreams \cup TruncatedStreams

Init ==
    /\ InitCommon
    /\ run = "container"
    /\ pc = "header"
    /\ pixels = <<>>
    /\ minimum_code_size = 0
    /\ input \in Streams

Next ==
    \/ ParseHeader
    \/ ParseScreen
    \/ EndOfStream
    \/ Trailer
    \/ InvalidBlock
    \/ ExtensionTypeMissing
    \/ GraphicsControl
    \/ Comment
    \/ Application
    \/ PlainText
    \/ UnknownExtension
    \/ ImageDescriptor
    \/ LzwNext
    \/ ImagePushed
    \/ ReadStdin
    \/ SizingLoop
    \/ ExtendDescriptors
    \/ ReplacePlainText
    \/ Reassemble
    \/ Reparse

Spec == Init /\ [][Next]_vars

\* the program is a single thread that takes its next step as long as it has one
SpecLive == Spec /\ WF_vars(Next)

----------------------------------------------------------------------------
(* Claims on the codec *)

\* C1: for every minimum code size k in 2..8 and every pixel sequence with
\* values below 2^k, read_lzw_data on the sub-block-framed output of
\* lzw_compress fails at no point and returns exactly the original pixels.
C1_RoundTrip ==
    run = "compress" =>
        /\ pc # "failed"
        /\ pc = "lzw_returned" => data = pixels

\* C1 witness: a round trip of four pixels given back by a clear code, four
\* data codes, the last one read at the grown code width, and the end code
C1_Witness ==
    /\ run = "compress"
    /\ pc = "lzw_returned"
    /\ Len(pixels) = 4
    /\ data = pixels
    /\ Len(codes) = 6
    /\ Last(codes) = Pow2(minimum_code_size) + 1
    /\ current_bit_size > minimum_code_size + 1

\* C10: a step that extracts a code equal to 2^k + 1 returns successfully
\* with the bytes appended so far; the end code is never followed by another
\* code; the codes clear, end give zero decoded bytes.
C10_EndCodeTerminates ==
    [][/\ (pc = "lzw_code" /\ ExtractCode(bit_buffer, current_bit_size)
                                = Pow2(minimum_code_size) + 1)
            => (pc' = "lzw_returned" /\ err' = "" /\ data' = data)
       /\ \A i \in 1..(Len(codes') - 1) : codes'[i] # Pow2(minimum_code_size') + 1
       /\ codes' = <<Pow2(minimum_code_size'), Pow2(minimum_code_size') + 1>>
            => (pc' = "lzw_returned" /\ data' = <<>>)]_vars

\* C10 witness: the decoder returned on an end code that came after a decoded
\* byte, with a further code left unread in the bit buffer
C10_Witness ==
    /\ run = "raw"
    /\ pc = "lzw_returned"
    /\ codes = <<Pow2(minimum_code_size), 0, Pow2(minimum_code_size) + 1>>
    /\ data = <<0>>
    /\ bit_count >= current_bit_size

\* the case of the codes clear, end: the decoder returned with no byte
C10_ClearThenEnd ==
    /\ pc = "lzw_returned"
    /\ codes = <<Pow2(minimum_code_size), Pow2(minimum_code_size) + 1>>
    /\ data = <<>>

----------------------------------------------------------------------------
(* Claims on the container *)

\* bytes frame payload: sub-blocks of 1..255 bytes, each after its length,
\* then exactly one zero length
RECURSIVE IsFraming(_, _)
IsFraming(bytes, payload) ==
    /\ bytes # <<>>
    /\ IF bytes[1] = 0
       THEN Len(bytes) = 1 /\ payload = <<>>
       ELSE /\ bytes[1] < Len(bytes)
            /\ bytes[1] <= Len(payload)
            /\ SubSeq(bytes, 2, 1 + bytes[1]) = SubSeq(payload, 1, bytes[1])
            /\ IsFraming(SubSeq(bytes, 2 + bytes[1], Len(bytes)),
                         SubSeq(payload, 1 + bytes[1], Len(payload)))

\* from offset a of s on, non-empty sub-blocks follow each other up to a zero
\* length byte, which is byte number e of s
RECURSIVE IsSubBlockChain(_, _, _)
IsSubBlockChain(s, a, e) ==
    /\ a + 1 <= e
    /\ e <= Len(s)
    /\ IF s[a + 1] = 0 THEN e = a + 1
       ELSE IsSubBlockChain(s, a + 1 + s[a + 1], e)

\* C2: the bytes reassemble_gif wrote are parsed to a Document again, and
\* reassemble_gif of that Document writes the same bytes.
C2_Idempotent ==
    pass = 2 =>
        /\ pc \notin {"failed", "exited"}
        /\ pc = "written" => Bytes(output) = prev_output

\* C3: with bit 7 of the screen descriptor's packed field set and size
\* exponent e the global color table read has exactly 2^(e+1) entries; with
\* bit 7 clear no global color table is read.
C3_GlobalColorTableLength ==
    (run = "container" /\ pc \notin {"header", "screen", "failed"}) =>
        LET packed == gif.logical_screen_descriptor.packed_field
        IN  IF packed >= 128
            THEN /\ gif.global_color_table # <<>>
                 /\ Len(gif.global_color_table[1]) = Pow2((packed % 8) + 1)
            ELSE gif.global_color_table = <<>>

\* C4: an input whose first three bytes are not "GIF" never yields a
\* Document.
C4_SignatureChecked ==
    (run = "container" /\ pass = 1 /\ Len(input) >= 3
     /\ SubSeq(input, 1, 3) # <<71, 73, 70>>)
        => pc \notin {"returned", "written"}

\* C5: when the input ends inside an image's sub-block stream, where a length
\* byte is expected or before the payload of a sub-block is complete,
\* read_lzw_data returns successfully.
C5_TolerantTruncation ==
    [][(/\ run = "container"
        /\ pc = "lzw_block"
        /\ \/ pos + 1 > Len(input)
           \/ pos + 1 + input[pos + 1] > Len(input))
       => (pc' = "lzw_returned" /\ err' = "")]_vars

\* C6: every variable-length payload reassemble_gif writes is framed as
\* sub-blocks of 1..255 bytes and one zero-length terminator.
C6_SubBlockFraming ==
    pc = "written" =>
        \A i \in 1..Len(output) :
            output[i].tag \in {"comment_data", "application_data",
                               "plain_text_data", "image_data"}
                => IsFraming(output[i].bytes, output[i].payload)

\* C7: the Document parse_gif returns holds every graphics control extension
\* read, in stream order.
C7_AllGraphicsControlsKept ==
    (run = "container" /\ pc = "returned")
        => gif.graphics_control_extension = gce_read

\* C8: an extension with a label other than 0xF9, 0xFE, 0xFF, 0x01 whose
\* sub-blocks are complete raises no error, leaves the collected extensions
\* and images as they are, and leaves the reader just after the terminator.
C8_UnknownExtensionSkipped ==
    [][\A e \in 1..Len(input) :
         (/\ pc = "block"
          /\ pos + 2 <= Len(input)
          /\ input[pos + 1] = 33
          /\ input[pos + 2] \notin {249, 254, 255, 1}
          /\ IsSubBlockChain(input, pos + 2, e))
         => (/\ pc' = "block"
             /\ err' = err
             /\ gif' = gif
             /\ plain_text_found' = plain_text_found
             /\ pos' = e)]_vars

\* C8 witness: an unknown extension with a non-empty sub-block was skipped
\* after an image was collected
C8_Witness ==
    /\ pc = "block"
    /\ last_block # <<>>
    /\ last_block[1] = "unknown"
    /\ input[last_block[2] + 3] # 0
    /\ input[pos] = 0
    /\ gif.image_descriptors # <<>>

\* C9: a graphics control extension whose block size byte is not 4 makes
\* parse_gif fail with a format error, and a failed parse returns nothing.
C9_GraphicsControlSize ==
    [][/\ (/\ pc = "block"
           /\ pos + 3 <= Len(input)
           /\ input[pos + 1] = 33
           /\ input[pos + 2] = 249
           /\ input[pos + 3] # 4)
          => (pc' = "failed" /\ err' = "InvalidData")
       /\ pc = "failed" => pc' = "failed"]_vars

\* C9 witness: the parse failed on a block size of 255 after an image was
\* collected
C9_Witness ==
    /\ pc = "failed"
    /\ err = "InvalidData"
    /\ last_block # <<>>
    /\ last_block[1] = "graphics_control"
    /\ input[last_block[2] + 3] = 255
    /\ gif.image_descriptors # <<>>

\* the position just after the first zero-length sub-block of the data of the
\* image block parse_gif took up last, -1 when the input ends before it
ImageDataEnd ==
    LET d == read_image_descriptor(input, last_block[2])
        chain == IF d.ok THEN ReadSubBlocks(input, d.pos) ELSE d
    IN  IF chain.ok THEN chain.pos ELSE 0 - 1

\* C11: for every image block whose data has its zero-length terminator,
\* read_lzw_data reads no further than that terminator, and the next block
\* indicator parse_gif examines is the byte just after it.
C11_ImageDataEndsAtTerminator ==
    (/\ last_block # <<>>
     /\ last_block[1] = "image"
     /\ ImageDataEnd >= 0)
    => /\ pc \in {"lzw_block", "lzw_byte", "lzw_code", "lzw_returned"}
            => pos <= ImageDataEnd
       /\ pc = "block" => pos = ImageDataEnd

----------------------------------------------------------------------------
(* Claims on the decoder's dictionary *)

\* C12: a code above next_code is not accepted as output, the stored previous
\* code is below the dictionary length after every step, and decoding never
\* ends in an out-of-range dictionary access.
C12_NoUnassignedSlot ==
    [][/\ (/\ pc = "lzw_code"
           /\ ExtractCode(bit_buffer, current_bit_size)
                \notin {Pow2(minimum_code_size), Pow2(minimum_code_size) + 1}
           /\ ExtractCode(bit_buffer, current_bit_size) > next_code)
          => (pc' = "failed" /\ data' = data)
       /\ previous_code' # <<>> => previous_code'[1] < Len(dictionary')
       /\ err' # "panic"]_vars

\* C13: for every minimum code size k in 2..8, after every code processed
\* (clear codes included) the dictionary length equals next_code,
\* 2^k + 2 <= next_code <= 4096, the width is between k + 1 and 12, below
\* width 12 next_code is below 2^width, and the width grows, by one, exactly
\* at the step where next_code reaches 2^width.
C13_DictionaryAndWidth ==
    [][codes' # codes =>
        /\ Len(dictionary') = next_code'
        /\ Pow2(minimum_code_size') + 2 <= next_code'
        /\ next_code' <= 4096
        /\ minimum_code_size' + 1 <= current_bit_size'
        /\ current_bit_size' <= 12
        /\ current_bit_size' < 12 => next_code' < Pow2(current_bit_size')
        /\ current_bit_size' > current_bit_size
             => (/\ current_bit_size' = current_bit_size + 1
                 /\ next_code' = next_code + 1
                 /\ next_code' = Pow2(current_bit_size))
        /\ (/\ next_code' = next_code + 1
            /\ next_code' = Pow2(current_bit_size)
            /\ current_bit_size < 12)
             => current_bit_size' = current_bit_size + 1]_vars

\* C13 witness: the width grew when next_code reached 2^(k+1), a clear code
\* read at the grown width reset dictionary and width, and the decoder went on
\* to the end code
C13_Witness ==
    /\ run = "filling"
    /\ pc = "lzw_returned"
    /\ Len(codes) = Pow2(minimum_code_size) + 2
    /\ codes[Len(codes) - 2] = Pow2(minimum_code_size)
    /\ Len(data) = Pow2(minimum_code_size)
    /\ Len(dictionary) = Pow2(minimum_code_size) + 2
    /\ next_code = Pow2(minimum_code_size) + 2
    /\ current_bit_size = minimum_code_size + 1

\* the dictionary is full: 4096 entries at width 12, unchanged by a further code
C13_DictionaryFull ==
    /\ run = "filling"
    /\ next_code = 4096
    /\ Len(dictionary) = 4096
    /\ current_bit_size = 12
    /\ Len(codes) = 4096 - (Pow2(minimum_code_size) + 2) + 1 + CodesAtFullDictionary

----------------------------------------------------------------------------
(* Claims on main *)

\* C14: with at least one image descriptor parsed, the plain text data of the
\* new plain text extensions, concatenated in order, is exactly the text read
\* from stdin, each record carries at most 254 bytes, and there are as many
\* plain text extensions as image descriptors handed to reassemble_gif.
C14_PayloadCarriedWhole ==
    (pc = "embedded" /\ gif.image_descriptors # <<>>) =>
        /\ Flatten([i \in 1..Len(gif.plain_text_extensions) |->
                      gif.plain_text_extensions[i].plain_text_data]) = stdin
        /\ \A i \in 1..Len(gif.plain_text_extensions) :
              Len(gif.plain_text_extensions[i].plain_text_data) <= 254
        /\ Len(gif.plain_text_extensions) = Len(gif.image_descriptors)

\* C15: the loop that extends image_descriptors reaches its exit branch.
C15_SizingLoopTerminates ==
    (pc = "sizing") ~> (pc = "replace")

====
